---- MODULE Spec2Model ----
(***************************************************************************)
(* Model of src/basic.c: a byte-pair-encoding tokenizer (pair counting,    *)
(* greedy merge, training loop, encode, decode).                           *)
(*                                                                         *)
(* C arrays are modelled as sequences: the C element a[k] is a[k + 1]      *)
(* here.  A C string is modelled as its buffer, the terminating NUL        *)
(* included; CStr gives the bytes that strlen and printf("%s") see.        *)
(***************************************************************************)
EXTENDS Integers, Sequences, FiniteSets, TLC

(* ------------------------------ bounds -------------------------------- *)

\* number of distinct byte values the input texts are drawn from
NumBytes == 2
\* longest input text (training text, text to encode, sequence to merge)
MaxTextLen == 3
\* largest number of merges requested from train
MaxMerges == 2
\* longest id sequence handed to decode
MaxDecLen == 3

(* ------------------------- program constants -------------------------- *)

INITIAL_VOCAB_SIZE == 500

\* range of unsigned char: vocab[i][0] = i stores i modulo ByteRange
ByteRange == 256

(* --------------------------- input domains ---------------------------- *)

FirstByte == 97

TextBytes == FirstByte .. (FirstByte + NumBytes - 1)

SeqsUpTo(S, n) == UNION { [1 .. k -> S] : k \in 0 .. n }

\* NUL-terminated text buffers
Texts == { Append(s, 0) : s \in SeqsUpTo(TextBytes, MaxTextLen) }

\* target vocabulary sizes: from no merge to MaxMerges merges
TargetSizes == INITIAL_VOCAB_SIZE .. (INITIAL_VOCAB_SIZE + MaxMerges)

\* ids handed to decode: a negative one, a base id, and the first id past
\* the base alphabet (in range only once a merge has been learned)
DecodeIdValues == {-1, FirstByte, INITIAL_VOCAB_SIZE}

DecodeInputs == SeqsUpTo(DecodeIdValues, MaxDecLen)

\* new ids handed to a direct call of merge: a fresh id and a symbol in use
MergeIdxValues == {INITIAL_VOCAB_SIZE, FirstByte}


(* --------------------------- C strings -------------------------------- *)

\* strlen: number of bytes before the first NUL of the buffer
strlen(buf) == (CHOOSE k \in 1 .. Len(buf) :
                   buf[k] = 0 /\ \A j \in 1 .. (k - 1) : buf[j] # 0) - 1

\* the bytes of a C string: the buffer up to its first NUL
CStr(buf) == SubSeq(buf, 1, strlen(buf))

\* conversion of an int to unsigned char
ToByte(n) == n % ByteRange

(* --------------------------- PairCounts ------------------------------- *)

MkPair(a, b) == [first |-> a, second |-> b]

\* values a Pair read through a null pointer may have: zeroed memory, or
\* something that looks like two symbols of a text
UBPairs == {MkPair(0, 0), MkPair(FirstByte, FirstByte + 1)}

init_pair_counts == [pairs |-> <<>>, counts |-> <<>>, size |-> 0, capacity |-> 0]

\* the search loop of add_pair_count: C index of the first entry equal to
\* pair at or after i, or -1 when the loop runs to the end
RECURSIVE FindPair(_, _, _)
FindPair(counts, pair, i) ==
    IF i < counts.size
    THEN IF counts.pairs[i + 1].first = pair.first
            /\ counts.pairs[i + 1].second = pair.second
         THEN i
         ELSE FindPair(counts, pair, i + 1)
    ELSE -1

add_pair_count(counts, pair, initial_count) ==
    LET k == FindPair(counts, pair, 0)
    IN IF k >= 0
       THEN [counts EXCEPT !.counts[k + 1] = @ + initial_count]
       ELSE [pairs    |-> Append(counts.pairs, pair),
             counts   |-> Append(counts.counts, initial_count),
             size     |-> counts.size + 1,
             capacity |-> IF counts.size = counts.capacity
                          THEN (IF counts.capacity = 0 THEN 4
                                ELSE counts.capacity * 2)
                          ELSE counts.capacity]

RECURSIVE get_stats_loop(_, _, _, _)
get_stats_loop(ids, length, i, counts) ==
    IF i < length - 1
    THEN get_stats_loop(ids, length, i + 1,
                        add_pair_count(counts, MkPair(ids[i + 1], ids[i + 2]), 1))
    ELSE counts

get_stats(ids, length) == get_stats_loop(ids, length, 0, init_pair_counts)

(* ------------------------------ merge --------------------------------- *)

\* the loop of merge; reads is the set of C indices of ids the loop has read
RECURSIVE merge_loop(_, _, _, _, _, _, _)
merge_loop(ids, length, pair, idx, i, newids, reads) ==
    IF i < length
    THEN IF i < length - 1 /\ ids[i + 1] = pair.first /\ ids[i + 2] = pair.second
         THEN merge_loop(ids, length, pair, idx, i + 2,
                         Append(newids, idx), reads \cup {i, i + 1})
         ELSE merge_loop(ids, length, pair, idx, i + 1,
                         Append(newids, ids[i + 1]),
                         reads \cup (IF i < length - 1 /\ ids[i + 1] = pair.first
                                     THEN {i, i + 1} ELSE {i}))
    ELSE [newids |-> newids, new_length |-> Len(newids), reads |-> reads]

\* merge with the skip of the second element of a match (line 140) left out
RECURSIVE merge_loop_noskip(_, _, _, _, _, _, _)
merge_loop_noskip(ids, length, pair, idx, i, newids, reads) ==
    IF i < length
    THEN IF i < length - 1 /\ ids[i + 1] = pair.first /\ ids[i + 2] = pair.second
         THEN merge_loop_noskip(ids, length, pair, idx, i + 1,
                                Append(newids, idx), reads \cup {i, i + 1})
         ELSE merge_loop_noskip(ids, length, pair, idx, i + 1,
                                Append(newids, ids[i + 1]), reads \cup {i})
    ELSE [newids |-> newids, new_length |-> Len(newids), reads |-> reads]

merge_noskip(ids, length, pair, idx) ==
    merge_loop_noskip(ids, length, pair, idx, 0, <<>>, {})

\* merge with the bound of line 137 one too small: i < length - 2
RECURSIVE merge_loop_short(_, _, _, _, _, _, _)
merge_loop_short(ids, length, pair, idx, i, newids, reads) ==
    IF i < length
    THEN IF i < length - 2 /\ ids[i + 1] = pair.first /\ ids[i + 2] = pair.second
         THEN merge_loop_short(ids, length, pair, idx, i + 2,
                               Append(newids, idx), reads \cup {i, i + 1})
         ELSE merge_loop_short(ids, length, pair, idx, i + 1,
                               Append(newids, ids[i + 1]), reads \cup {i})
    ELSE [newids |-> newids, new_length |-> Len(newids), reads |-> reads]

merge_short(ids, length, pair, idx) ==
    merge_loop_short(ids, length, pair, idx, 0, <<>>, {})

merge(ids, length, pair, idx) == merge_loop(ids, length, pair, idx, 0, <<>>, {})

(* ------------------------- training helpers --------------------------- *)

\* the selection loop of train: C index of the entry with the largest count
\* the selection loop with >= for >: the last of the largest counts wins
RECURSIVE SelectMaxLast(_, _, _)
SelectMaxLast(stats, j, max_idx) ==
    IF j < stats.size
    THEN SelectMaxLast(stats, j + 1,
                       IF stats.counts[j + 1] >= stats.counts[max_idx + 1]
                       THEN j ELSE max_idx)
    ELSE max_idx

RECURSIVE SelectMax(_, _, _)
SelectMax(stats, j, max_idx) ==
    IF j < stats.size
    THEN SelectMax(stats, j + 1,
                   IF stats.counts[j + 1] > stats.counts[max_idx + 1]
                   THEN j ELSE max_idx)
    ELSE max_idx

\* the vocabulary entry train stores for a merged pair
NewVocabEntry(pair) == <<ToByte(pair.first), ToByte(pair.second), 0>>

\* the vocabulary entry create_basic_tokenizer stores for id i
BaseVocabEntry(i) == <<ToByte(i), 0>>

(* ------------------------- encode and decode -------------------------- *)

RECURSIVE encode_loop(_, _, _, _)
encode_loop(text, text_length, i, ids) ==
    IF i < text_length
    THEN encode_loop(text, text_length, i + 1, Append(ids, text[i + 1]))
    ELSE ids

\* encode with the loop bound one too small: the last byte is dropped
encode_short(text) ==
    LET ids == encode_loop(text, strlen(text) - 1, 0, <<>>)
    IN [ids |-> ids, length |-> Len(ids)]

encode(text) ==
    LET ids == encode_loop(text, strlen(text), 0, <<>>)
    IN [ids |-> ids, length |-> strlen(text)]

\* the loop of decode: out is the bytes printed, errs the ids reported out
\* of range, reads the set of C indices of vocab the loop has read (a read
\* outside the array, if one is made, is recorded and yields a stray byte)
RECURSIVE decode_loop(_, _, _, _, _)
decode_loop(tvocab, tvocab_size, ids, i, acc) ==
    IF i < Len(ids)
    THEN IF ids[i + 1] < 0 \/ ids[i + 1] >= tvocab_size
         THEN decode_loop(tvocab, tvocab_size, ids, i + 1,
                          [acc EXCEPT !.errs = Append(@, ids[i + 1])])
         ELSE decode_loop(tvocab, tvocab_size, ids, i + 1,
                          [acc EXCEPT
                             !.out = @ \o (IF ids[i + 1] + 1 \in DOMAIN tvocab
                                           THEN CStr(tvocab[ids[i + 1] + 1])
                                           ELSE <<0>>),
                             !.reads = @ \cup {ids[i + 1]}])
    ELSE acc

\* decode with > for >= in the range check of line 282
RECURSIVE decode_loop_inclusive(_, _, _, _, _)
decode_loop_inclusive(tvocab, tvocab_size, ids, i, acc) ==
    IF i < Len(ids)
    THEN IF ids[i + 1] < 0 \/ ids[i + 1] > tvocab_size
         THEN decode_loop_inclusive(tvocab, tvocab_size, ids, i + 1,
                                    [acc EXCEPT !.errs = Append(@, ids[i + 1])])
         ELSE decode_loop_inclusive(tvocab, tvocab_size, ids, i + 1,
                          [acc EXCEPT
                             !.out = @ \o (IF ids[i + 1] + 1 \in DOMAIN tvocab
                                           THEN CStr(tvocab[ids[i + 1] + 1])
                                           ELSE <<0>>),
                             !.reads = @ \cup {ids[i + 1]}])
    ELSE acc

decode_inclusive(tvocab, tvocab_size, ids) ==
    decode_loop_inclusive(tvocab, tvocab_size, ids, 0,
                          [out |-> <<>>, errs |-> <<>>, reads |-> {}])

decode(tvocab, tvocab_size, ids) ==
    decode_loop(tvocab, tvocab_size, ids, 0,
                [out |-> <<>>, errs |-> <<>>, reads |-> {}])

(* ----------------------------- state ---------------------------------- *)

VARIABLES
    pc,           \* "created", "training", "trained" or "crashed"
    vocab,        \* tokenizer->vocab: the buffer of id k is vocab[k + 1]
    vocab_size,   \* tokenizer->vocab_size
    merges,       \* tokenizer->merges, a PairCounts
    train_text,   \* train: the text argument
    train_ids,    \* train: ids
    text_length,  \* train: text_length
    num_merges,   \* train: num_merges
    train_i,      \* train: the loop variable i
    max_pair,     \* train: max_pair of the last iteration
    res           \* arguments and result of the last call of merge, encode,
                  \* decode or test_tokenizer (encode, then decode)

vars == <<pc, vocab, vocab_size, merges, train_text, train_ids, text_length,
          num_merges, train_i, max_pair, res>>

tokenizer == <<vocab, vocab_size, merges>>

train_locals == <<train_text, train_ids, text_length, num_merges, train_i, max_pair>>

NoRes == [op |-> "none", text |-> <<>>, ids |-> <<>>, pair |-> MkPair(0, 0),
          idx |-> 0, out |-> <<>>, len |-> 0, errs |-> <<>>, reads |-> {},
          invalid |-> FALSE]

(* ------------------------ create_basic_tokenizer ---------------------- *)

Init ==
    /\ pc = "created"
    /\ vocab = [k \in 1 .. INITIAL_VOCAB_SIZE |-> BaseVocabEntry(k - 1)]
    /\ vocab_size = INITIAL_VOCAB_SIZE
    /\ merges = init_pair_counts
    /\ train_text = <<0>>
    /\ train_ids = <<>>
    /\ text_length = 0
    /\ num_merges = 0
    /\ train_i = 0
    /\ max_pair = MkPair(0, 0)
    /\ res = NoRes

(* ------------------------------- merge -------------------------------- *)

\* a direct call of merge; its result does not depend on the tokenizer, so
\* the calls are explored on the freshly created one
CallMerge ==
    /\ pc = "created"
    /\ res = NoRes
    /\ \E ids \in SeqsUpTo(TextBytes, MaxTextLen),
          a \in TextBytes, b \in TextBytes, idx \in MergeIdxValues :
          LET m == merge(ids, Len(ids), MkPair(a, b), idx)
          IN res' = [NoRes EXCEPT !.op = "merge", !.ids = ids,
                                  !.pair = MkPair(a, b), !.idx = idx,
                                  !.out = m.newids, !.len = m.new_length,
                                  !.reads = m.reads]
    /\ UNCHANGED <<pc, tokenizer, train_locals>>

(* ------------------------------- train -------------------------------- *)

\* the new entry stored without growing the array: the last slot is overwritten
AppendVocabInPlace(tvocab, tvocab_size, pair) ==
    [tvocab EXCEPT ![Len(tvocab)] = NewVocabEntry(pair)]

\* lines 236-241: one more slot, the new entry stored in it
AppendVocab(tvocab, tvocab_size, pair) ==
    [k \in 1 .. (tvocab_size + 1) |->
        IF k = tvocab_size + 1 THEN NewVocabEntry(pair) ELSE tvocab[k]]

\* lines 210-218: ids of the text's bytes, number of merges
TrainStart ==
    /\ pc = "created"
    /\ res = NoRes
    /\ \E text \in Texts, target_vocab_size \in TargetSizes :
          /\ train_text' = text
          /\ text_length' = strlen(text)
          /\ train_ids' = [k \in 1 .. strlen(text) |-> text[k]]
          /\ num_merges' = target_vocab_size - INITIAL_VOCAB_SIZE
    /\ train_i' = 0
    /\ pc' = "training"
    /\ UNCHANGED <<tokenizer, max_pair, res>>

\* lines 231-241: the rest of an iteration once max_pair is read
MergeSelected(selected) ==
    LET new_idx == INITIAL_VOCAB_SIZE + train_i
        m == merge(train_ids, text_length, selected, new_idx)
    IN /\ max_pair' = selected
       /\ train_ids' = m.newids
       /\ text_length' = m.new_length
       /\ merges' = add_pair_count(merges, selected, new_idx)
       /\ vocab' = AppendVocab(vocab, vocab_size, selected)
       /\ vocab_size' = vocab_size + 1
       /\ train_i' = train_i + 1
       /\ UNCHANGED <<pc, train_text, num_merges, res>>

\* lines 219-246: one iteration of the training loop.  With fewer than two
\* ids get_stats returns pairs = NULL and line 230 reads stats.pairs[0]
\* through it: the process is killed, or the read yields some pair.
TrainIter ==
    /\ pc = "training"
    /\ train_i < num_merges
    /\ LET stats == get_stats(train_ids, text_length)
       IN IF stats.size > 0
          THEN MergeSelected(stats.pairs[SelectMax(stats, 1, 0) + 1])
          ELSE \/ /\ pc' = "crashed"
                  /\ UNCHANGED <<tokenizer, train_locals, res>>
               \/ \E garbage \in UBPairs : MergeSelected(garbage)

\* lines 219, 247: the loop ends, ids is freed
TrainEnd ==
    /\ pc = "training"
    /\ train_i >= num_merges
    /\ pc' = "trained"
    /\ UNCHANGED <<tokenizer, train_locals, res>>

(* --------------------------- encode, decode --------------------------- *)

Encode ==
    /\ pc = "trained"
    /\ res = NoRes
    /\ \E text \in Texts :
          LET e == encode(text)
          IN res' = [NoRes EXCEPT !.op = "encode", !.text = text,
                                  !.ids = e.ids, !.len = e.length]
    /\ UNCHANGED <<pc, tokenizer, train_locals>>

Decode ==
    /\ pc = "trained"
    /\ res = NoRes
    /\ \E ids \in DecodeInputs :
          LET d == decode(vocab, vocab_size, ids)
          IN res' = [NoRes EXCEPT !.op = "decode", !.ids = ids, !.out = d.out,
                                  !.errs = d.errs, !.reads = d.reads]
    /\ UNCHANGED <<pc, tokenizer, train_locals>>

\* lines 273-277: decode called with ids = NULL
DecodeNull ==
    /\ pc = "trained"
    /\ res = NoRes
    /\ res' = [NoRes EXCEPT !.op = "decode", !.invalid = TRUE]
    /\ UNCHANGED <<pc, tokenizer, train_locals>>

\* lines 332-357, for one text: encode it, decode the ids; res.ids is what
\* encode returned, res.out what decode printed
TestTokenizer ==
    /\ pc = "trained"
    /\ res = NoRes
    /\ \E text \in Texts :
          LET e == encode(text)
              d == decode(vocab, vocab_size, e.ids)
          IN res' = [NoRes EXCEPT !.op = "test", !.text = text, !.ids = e.ids,
                                  !.len = e.length, !.out = d.out,
                                  !.errs = d.errs, !.reads = d.reads]
    /\ UNCHANGED <<pc, tokenizer, train_locals>>

\* the caller is done with the result of the last call and frees it
\* (line 355 for the ids encode returned); the next call follows
Release ==
    /\ res # NoRes
    /\ res' = NoRes
    /\ UNCHANGED <<pc, tokenizer, train_locals>>

(* --------------------------- specification ---------------------------- *)

Next ==
    \/ CallMerge
    \/ TrainStart
    \/ TrainIter
    \/ TrainEnd
    \/ Encode
    \/ Decode
    \/ DecodeNull
    \/ TestTokenizer
    \/ Release

Spec == Init /\ [][Next]_vars

TypeOK ==
    /\ pc \in {"created", "training", "trained", "crashed"}
    /\ vocab_size = Len(vocab)
    /\ merges.size = Len(merges.pairs)
    /\ merges.size = Len(merges.counts)
    /\ merges.size <= merges.capacity
    /\ text_length = Len(train_ids)

(* ------------------------ auxiliary definitions ----------------------- *)

\* the bytes of a text buffer of Texts: everything before its final NUL
TextBytesOf(text) == SubSeq(text, 1, Len(text) - 1)

\* greedy left-to-right non-overlapping replacement, on the sequence itself
RECURSIVE GreedyReplace(_, _, _)
GreedyReplace(s, pair, idx) ==
    IF s = <<>>
    THEN <<>>
    ELSE IF Len(s) >= 2 /\ s[1] = pair.first /\ s[2] = pair.second
         THEN <<idx>> \o GreedyReplace(SubSeq(s, 3, Len(s)), pair, idx)
         ELSE <<s[1]>> \o GreedyReplace(Tail(s), pair, idx)

\* positions of s at which pair occurs adjacently
Occurrences(s, pair) ==
    { k \in 1 .. (Len(s) - 1) : s[k] = pair.first /\ s[k + 1] = pair.second }

AdjacentPairs(s) == { MkPair(s[k], s[k + 1]) : k \in 1 .. (Len(s) - 1) }

Frequency(s, pair) == Cardinality(Occurrences(s, pair))

FirstOccurrence(s, pair) ==
    CHOOSE k \in Occurrences(s, pair) : \A j \in Occurrences(s, pair) : k <= j

IsPrefixOf(a, b) == Len(a) <= Len(b) /\ SubSeq(b, 1, Len(a)) = a

RECURSIVE Concat(_)
Concat(ss) == IF ss = <<>> THEN <<>> ELSE Head(ss) \o Concat(Tail(ss))

\* a step of the training loop taken with a non-empty frequency mapping,
\* that is with at least two symbols in the sequence
SelectingIter ==
    /\ pc = "training"
    /\ pc' = "training"
    /\ train_i' = train_i + 1
    /\ Len(train_ids) >= 2

\* a step of the training loop taken with an empty frequency mapping
EmptyStatsIter ==
    /\ pc = "training"
    /\ train_i < num_merges
    /\ Len(train_ids) < 2

\* ranks (1-based) of the rules whose pair occurs adjacently in s
MatchingRanks(rules, s) ==
    { k \in 1 .. rules.size : Occurrences(s, rules.pairs[k]) # {} }

\* rank-priority application of the rules: lowest matching rank first,
\* across the whole sequence, until no rule matches
RECURSIVE ApplyRules(_, _)
ApplyRules(rules, s) ==
    IF MatchingRanks(rules, s) = {}
    THEN s
    ELSE LET k == CHOOSE r \in MatchingRanks(rules, s) :
                      \A q \in MatchingRanks(rules, s) : r <= q
         IN ApplyRules(rules, GreedyReplace(s, rules.pairs[k], rules.counts[k]))

(* ------------------------------ claims -------------------------------- *)

\* C1: Round trip.  For every tokenizer train produced and every text,
\* decoding the ids encode returned for the text prints exactly the bytes
\* of the text, in order, nothing added, nothing dropped, no id rejected.
C1_RoundTrip ==
    res.op = "test" =>
        /\ res.out = TextBytesOf(res.text)
        /\ res.errs = <<>>

\* a text of two bytes or more went through a tokenizer that learned a merge
C1_Witness ==
    /\ res.op = "test"
    /\ merges.size > 0
    /\ Len(TextBytesOf(res.text)) >= 2
    /\ res.out = TextBytesOf(res.text)

\* every iteration of the run had a pair to select: the sequence never fell
\* below two symbols (its length never grows), so every rule was learned
EveryRuleLearned == text_length >= 2 \/ train_i = 0

\* C2: encode applies the learned merge rules to the bytes of the text,
\* lowest rank first, across the whole sequence, until no adjacent pair
\* matches a rule; so encoding the training text returns the merged
\* sequence training produced.
C2_EncodeAppliesMerges ==
    (res.op = "encode" /\ EveryRuleLearned) =>
        /\ res.ids = ApplyRules(merges, TextBytesOf(res.text))
        /\ (res.text = train_text => res.ids = train_ids)

\* C3: when the frequency mapping of the current sequence is empty, the
\* training loop stops at that iteration: no pair selected, no rule and no
\* vocabulary entry added, no further iteration.
C3_StopsOnEmptyStats ==
    [][EmptyStatsIter =>
          /\ pc' = "trained"
          /\ merges' = merges
          /\ vocab' = vocab
          /\ vocab_size' = vocab_size
          /\ train_i' = train_i]_vars

\* C4: the vocabulary entry stored for a learned merge is the concatenation
\* of the full vocabulary strings of the rule's two symbols, so that
\* decoding the merged training sequence reproduces the training text.
C4_VocabIsConcatenation ==
    [][SelectingIter =>
          /\ CStr(vocab'[vocab_size + 1]) =
                CStr(vocab[max_pair'.first + 1]) \o CStr(vocab[max_pair'.second + 1])
          /\ decode(vocab', vocab_size', train_ids').out = TextBytesOf(train_text)]_vars

\* C5: the merge learned at iteration k is assigned the new id 256 + k, and
\* this id is the vocabulary size at the moment the rule is appended.
C5_NewIdIs256PlusRank ==
    [][SelectingIter =>
          /\ merges'.size = train_i + 1
          /\ merges'.pairs[train_i + 1] = max_pair'
          /\ merges'.counts[train_i + 1] = 256 + train_i
          /\ merges'.counts[train_i + 1] = vocab_size]_vars

\* C6: decode never reads the vocabulary out of bounds: an id that is
\* negative or >= the vocabulary size is reported and contributes no byte,
\* every in-range id of the same input is still decoded, in order.
C6_DecodeInBounds ==
    (res.op = "decode" /\ ~res.invalid) =>
        LET inRange(id) == id >= 0 /\ id < vocab_size
            outOfRange(id) == ~inRange(id)
            kept == SelectSeq(res.ids, inRange)
        IN /\ res.reads \subseteq 0 .. (Len(vocab) - 1)
           /\ res.reads = { res.ids[k] : k \in { j \in 1 .. Len(res.ids) : inRange(res.ids[j]) } }
           /\ res.errs = SelectSeq(res.ids, outOfRange)
           /\ res.out = Concat([k \in 1 .. Len(kept) |-> CStr(vocab[kept[k] + 1])])

\* an offending id between two in-range ids, the second a learned id
C6_Witness ==
    /\ res.op = "decode"
    /\ vocab_size = INITIAL_VOCAB_SIZE + 1
    /\ res.ids = <<FirstByte, -1, INITIAL_VOCAB_SIZE>>
    /\ res.errs = <<-1>>
    /\ Len(res.out) = 3

\* C7: merge is the greedy left-to-right non-overlapping replacement;
\* [a,a,a] with pair (a,a) gives [idx,a]; no position past the end of the
\* input is read.
C7_MergeIsGreedy ==
    res.op = "merge" =>
        /\ res.out = GreedyReplace(res.ids, res.pair, res.idx)
        /\ res.len = Len(res.out)
        /\ res.reads \subseteq 0 .. (Len(res.ids) - 1)
        /\ \A a \in TextBytes :
              (res.ids = <<a, a, a>> /\ res.pair = MkPair(a, a))
                  => res.out = <<res.idx, a>>

\* [a,a,a] merged on (a,a)
C7_Witness ==
    /\ res.op = "merge"
    /\ res.ids = <<FirstByte, FirstByte, FirstByte>>
    /\ res.pair = MkPair(FirstByte, FirstByte)
    /\ res.out = <<res.idx, FirstByte>>

NoAdjacent(s, pair) == Occurrences(s, pair) = {}

\* C8: with a new id distinct from both symbols of the pair, the output of
\* merge is no longer than its input and holds no adjacent occurrence of
\* the pair; train never selects a pair it has selected before.
C8_MergeRemovesPair ==
    /\ [](( /\ res.op = "merge"
            /\ res.idx # res.pair.first
            /\ res.idx # res.pair.second )
          => /\ Len(res.out) <= Len(res.ids)
             /\ NoAdjacent(res.out, res.pair))
    /\ [][SelectingIter =>
             /\ Len(train_ids') <= Len(train_ids)
             /\ NoAdjacent(train_ids', max_pair')
             /\ \A k \in 1 .. merges.size : merges.pairs[k] # max_pair']_vars

\* the second selection of a run, made on a sequence the first merge shortened
C8_Witness ==
    /\ pc = "training"
    /\ train_i = 2
    /\ merges.size = 2
    /\ merges.pairs[1] # merges.pairs[2]
    /\ Len(TextBytesOf(train_text)) = 3
    /\ text_length = 1

C10_GrowsByOne ==
    /\ [][SelectingIter =>
             /\ merges'.size = merges.size + 1
             /\ Len(merges'.pairs) = Len(merges.pairs) + 1
             /\ Len(merges'.counts) = Len(merges.counts) + 1
             /\ IsPrefixOf(merges.pairs, merges'.pairs)
             /\ IsPrefixOf(merges.counts, merges'.counts)
             /\ vocab_size' = vocab_size + 1
             /\ Len(vocab') = Len(vocab) + 1
             /\ IsPrefixOf(vocab, vocab')]_vars
    /\ [][/\ merges'.size >= merges.size
          /\ Len(merges'.pairs) >= Len(merges.pairs)
          /\ vocab_size' >= vocab_size
          /\ Len(vocab') >= Len(vocab)]_vars
    /\ [][res'.op \in {"encode", "decode", "test"} =>
             /\ merges' = merges
             /\ vocab' = vocab
             /\ vocab_size' = vocab_size]_vars

\* a trained tokenizer with two rules and two new entries, after a call of
\* encode or decode
C10_Witness ==
    /\ pc = "trained"
    /\ res.op \in {"encode", "decode", "test"}
    /\ merges.size = 2
    /\ vocab_size = INITIAL_VOCAB_SIZE + 2
    /\ Len(TextBytesOf(train_text)) >= 3

====
